---- MODULE Spec2Model ----
(***************************************************************************)
(* rungittest: run shell tests in parallel (src/main.go, the variant with  *)
(* summary.txt, lines 1-154).  The main goroutine parses the flags,        *)
(* expands the glob patterns, creates the output directory, starts one     *)
(* goroutine per entry, collects one result per entry, sorts the failures  *)
(* and writes summary.txt.  Each goroutine takes a slot of the throttle    *)
(* channel, runs runTest, sends the result and gives the slot back.        *)
(***************************************************************************)
EXTENDS Integers, Sequences, FiniteSets, TLC

\* ---- bounds of the model ----
MaxJobs == 2
MaxArgs == 2
MaxEntries == 3
MaxOut == 6

\* ---- strings ----
\* Test names are atomic; "" is the zero value of result.name.
Names == {"t1", "t2"}
NoName == ""
\* Byte-wise order of the names (what sort.Strings compares).
StrRank(s) == CASE s = "" -> 0 [] s = "t1" -> 1 [] s = "t2" -> 2
StrLess(a, b) == StrRank(a) < StrRank(b)

\* Texts (captured output, summaries) are sequences of one-character strings.
LF == "\n"
OkPrefix == <<"o", "k", ":", " ">>
ErrorPrefix == <<"e", "r", "r", "o", "r", ":", " ">>
CreateError == <<"c", "r", "e", "a", "t", "e", " ", "e", "r", "r", "o", "r">>

\* error values of result.err
Nil == "nil"
ErrCreate == "create"
ErrExit == "exit status 1"

VARIABLES
  jobs,        \* --jobs
  outdir,      \* TRUE iff --outdir was given a non-empty value
  args,        \* len(flag.Args()): number of glob patterns
  script,      \* the environment: for each script name, how it behaves
  pc,          \* position of the main goroutine
  entries,     \* the expanded list of test names
  dirCreated,  \* the output directory exists
  throttle,    \* number of values buffered in the throttle channel
  results,     \* contents of the results channel
  launched,    \* number of goroutines started by the launch loop
  upc,         \* position of each goroutine
  ret,         \* the result runTest returned to each goroutine
  logs,        \* names whose log file has been created
  runs,        \* for each script name, how many times /bin/sh was started on it
  i,           \* number of results the collector has received
  progress,    \* the progress lines printed so far
  failed,      \* the failures list
  summaryFile, \* contents of summary.txt (its list of names), or NoFile
  status,      \* exit status of the process, Running while it is alive
  diag         \* the fatal diagnostic printed, "none" if none

vars == <<jobs, outdir, args, script, pc, entries, dirCreated, throttle,
          results, launched, upc, ret, logs, runs, i, progress, failed,
          summaryFile, status, diag>>

Running == -1
NoFile == <<"<absent>">>
NoResult == [name |-> NoName, summary |-> <<>>, err |-> Nil]

\* The behaviours a script can have: its log file cannot be created; it
\* exits cleanly after printing "a\nb\nc\n"; it exits with status 1 after
\* printing "x\n".
Behaviours ==
  { [create |-> FALSE, exit |-> Nil, out |-> <<>>],
    [create |-> TRUE, exit |-> Nil, out |-> <<"a", LF, "b", LF, "c", LF>>],
    [create |-> TRUE, exit |-> ErrExit, out |-> <<"x", LF>>] }

N == Len(entries)
Units == 1..N

\* ---- pure functions ----

\* a split that drops the empty piece after a final line feed
RECURSIVE SplitNoTrailing(_)
SplitNoTrailing(s) ==
  IF \A k \in 1..Len(s) : s[k] # LF
    THEN <<s>>
    ELSE LET k == CHOOSE k \in 1..Len(s) :
                    s[k] = LF /\ \A j \in 1..(k-1) : s[j] # LF
         IN IF k = Len(s) THEN <<SubSeq(s, 1, k-1)>>
            ELSE <<SubSeq(s, 1, k-1)>> \o SplitNoTrailing(SubSeq(s, k+1, Len(s)))

\* bytes.Split(s, "\n")
RECURSIVE Split(_)
Split(s) ==
  IF \A k \in 1..Len(s) : s[k] # LF
    THEN <<s>>
    ELSE LET k == CHOOSE k \in 1..Len(s) :
                    s[k] = LF /\ \A j \in 1..(k-1) : s[j] # LF
         IN <<SubSeq(s, 1, k-1)>> \o Split(SubSeq(s, k+1, Len(s)))

\* a summary taken one piece too early (lines[len(lines)-4:])
SummaryFourthFromLast(out, err) ==
  LET lines == Split(out)
      body == IF Len(lines) >= 4 THEN lines[Len(lines) - 3] ELSE <<>>
  IN IF err # Nil THEN ErrorPrefix \o body ELSE OkPrefix \o body

\* lines 75-86: the summary of a finished process
Summary(out, err) ==
  LET lines == Split(out)
      body == IF Len(lines) >= 3 THEN lines[Len(lines) - 2] ELSE <<>>
  IN IF err # Nil THEN ErrorPrefix \o body ELSE OkPrefix \o body

\* a runTest whose error is shared: a test counts as failed as soon as the
\* script of any name fails
runTestSharedErr(name) ==
  LET b == script[name]
      e == IF \E n \in Names : script[n].create /\ script[n].exit # Nil
             THEN ErrExit ELSE b.exit
  IN IF ~b.create
       THEN [name |-> NoName, summary |-> CreateError, err |-> ErrCreate]
       ELSE [name |-> name, summary |-> Summary(b.out, e), err |-> e]

\* runTest(name, outdir), lines 49-93
runTest(name) ==
  LET b == script[name]
  IN IF ~b.create
       THEN [name |-> NoName, summary |-> CreateError, err |-> ErrCreate]
       ELSE [name |-> name, summary |-> Summary(b.out, b.exit), err |-> b.exit]

\* sort.Strings: insertion sort by the byte-wise order
RECURSIVE Insert(_, _)
Insert(x, s) ==
  IF s = <<>> THEN <<x>>
  ELSE IF StrLess(s[1], x) THEN <<s[1]>> \o Insert(x, Tail(s))
  ELSE <<x>> \o s

RECURSIVE SortStrings(_)
SortStrings(s) == IF s = <<>> THEN <<>> ELSE Insert(s[1], SortStrings(Tail(s)))

\* filepath.Glob: the matches of one pattern, sorted and without repeats
GlobResults ==
  { s \in UNION { [1..n -> Names] : n \in 0..Cardinality(Names) } :
      \A k \in 1..(Len(s) - 1) : StrLess(s[k], s[k+1]) }

RECURSIVE Concat(_)
Concat(ss) == IF ss = <<>> THEN <<>> ELSE ss[1] \o Concat(Tail(ss))

\* a results channel one slot too small
ResultsCapShort == N - 1

\* capacity of the results channel, line 123
ResultsCap == N

\* log.Fatal: print the diagnostic and exit with status 1
Fatal(d) == /\ status' = 1
            /\ diag' = d
            /\ pc' = "exit"

\* ---- the main goroutine ----

\* the state of a process that has just started
Fresh ==
  /\ pc = "flags"
  /\ entries = <<>>
  /\ dirCreated = FALSE
  /\ throttle = 0
  /\ results = <<>>
  /\ launched = 0
  /\ upc = <<>>
  /\ ret = <<>>
  /\ logs = {}
  /\ runs = [n \in Names |-> 0]
  /\ i = 0
  /\ progress = <<>>
  /\ failed = <<>>
  /\ summaryFile = NoFile
  /\ status = Running
  /\ diag = "none"

Init ==
  /\ jobs \in -1..MaxJobs
  /\ outdir \in BOOLEAN
  /\ args \in 0..MaxArgs
  /\ script \in [Names -> Behaviours]
  /\ Fresh

\* a flag check that accepts a command line without patterns
CheckFlagsNoUsage ==
  /\ pc = "flags"
  /\ IF ~outdir THEN Fatal("outdir")
     ELSE pc' = "glob" /\ UNCHANGED <<status, diag>>
  /\ UNCHANGED <<jobs, outdir, args, script, entries, dirCreated, throttle,
                 results, launched, upc, ret, logs, runs, i, progress, failed,
                 summaryFile>>

\* lines 100-105
CheckFlags ==
  /\ pc = "flags"
  /\ IF ~outdir THEN Fatal("outdir")
     ELSE IF args = 0 THEN Fatal("usage")
     ELSE pc' = "glob" /\ UNCHANGED <<status, diag>>
  /\ UNCHANGED <<jobs, outdir, args, script, entries, dirCreated, throttle,
                 results, launched, upc, ret, logs, runs, i, progress, failed,
                 summaryFile>>

\* lines 107-114
Glob ==
  /\ pc = "glob"
  /\ \/ /\ Fatal("glob")
        /\ UNCHANGED entries
     \/ \E es \in [1..args -> GlobResults] :
          /\ Len(Concat(es)) <= MaxEntries
          /\ entries' = Concat(es)
          /\ pc' = "mkdir"
          /\ UNCHANGED <<status, diag>>
  /\ UNCHANGED <<jobs, outdir, args, script, dirCreated, throttle,
                 results, launched, upc, ret, logs, runs, i, progress, failed,
                 summaryFile>>

\* a run that goes on when the directory could not be created
MkdirAllIgnoreError ==
  /\ pc = "mkdir"
  /\ \E ok \in BOOLEAN : dirCreated' = ok
  /\ pc' = "make"
  /\ UNCHANGED <<jobs, outdir, args, script, entries, throttle,
                 results, launched, upc, ret, logs, runs, i, progress, failed,
                 summaryFile, status, diag>>

\* a directory error that is printed without ending the process
MkdirAllLogOnly ==
  /\ pc = "mkdir"
  /\ \/ /\ diag' = "mkdir"
        /\ pc' = "make"
        /\ UNCHANGED <<dirCreated, status>>
     \/ /\ dirCreated' = TRUE
        /\ pc' = "make"
        /\ UNCHANGED <<status, diag>>
  /\ UNCHANGED <<jobs, outdir, args, script, entries, throttle,
                 results, launched, upc, ret, logs, runs, i, progress, failed,
                 summaryFile>>

\* lines 116-118
MkdirAll ==
  /\ pc = "mkdir"
  /\ \/ /\ Fatal("mkdir")
        /\ UNCHANGED dirCreated
     \/ /\ dirCreated' = TRUE
        /\ pc' = "make"
        /\ UNCHANGED <<status, diag>>
  /\ UNCHANGED <<jobs, outdir, args, script, entries, throttle,
                 results, launched, upc, ret, logs, runs, i, progress, failed,
                 summaryFile>>

\* lines 120-123: a negative size makes make(chan) panic (exit status 2)
MakeChans ==
  /\ pc = "make"
  /\ IF jobs < 0
       THEN /\ status' = 2
            /\ diag' = "makechan"
            /\ pc' = "exit"
            /\ UNCHANGED <<upc, ret>>
       ELSE /\ upc' = [u \in Units |-> "idle"]
            /\ ret' = [u \in Units |-> NoResult]
            /\ pc' = IF N = 0 THEN "sort" ELSE "launch"
            /\ UNCHANGED <<status, diag>>
  /\ UNCHANGED <<jobs, outdir, args, script, entries, dirCreated, throttle,
                 results, launched, logs, runs, i, progress, failed, summaryFile>>

\* lines 124-131: one go statement
Launch ==
  /\ pc = "launch"
  /\ launched < N
  /\ launched' = launched + 1
  /\ upc' = [upc EXCEPT ![launched + 1] = "acquire"]
  /\ pc' = IF launched + 1 = N THEN "collect" ELSE "launch"
  /\ UNCHANGED <<jobs, outdir, args, script, entries, dirCreated, throttle,
                 results, ret, logs, runs, i, progress, failed, summaryFile,
                 status, diag>>

\* a collector that waits for one result more than there are entries
CollectOneMore ==
  /\ pc = "collect"
  /\ results # <<>>
  /\ LET r == Head(results)
     IN /\ results' = Tail(results)
        /\ progress' = Append(progress,
               [completed |-> i + 1, total |-> N, name |-> r.name,
                summary |-> r.summary, newline |-> (r.err # Nil)])
        /\ failed' = IF r.err # Nil THEN Append(failed, r.name) ELSE failed
  /\ i' = i + 1
  /\ pc' = IF i + 1 = N + 1 THEN "sort" ELSE "collect"
  /\ UNCHANGED <<jobs, outdir, args, script, entries, dirCreated, throttle,
                 launched, upc, ret, logs, runs, summaryFile, status, diag>>

\* a collector that prints the loop index instead of i+1
CollectZeroBased ==
  /\ pc = "collect"
  /\ i < N
  /\ results # <<>>
  /\ LET r == Head(results)
     IN /\ results' = Tail(results)
        /\ progress' = Append(progress,
               [completed |-> i, total |-> N, name |-> r.name,
                summary |-> r.summary, newline |-> (r.err # Nil)])
        /\ failed' = IF r.err # Nil THEN Append(failed, r.name) ELSE failed
  /\ i' = i + 1
  /\ pc' = IF i + 1 = N THEN "sort" ELSE "collect"
  /\ UNCHANGED <<jobs, outdir, args, script, entries, dirCreated, throttle,
                 launched, upc, ret, logs, runs, summaryFile, status, diag>>

\* lines 134-141: one iteration of the collector
Collect ==
  /\ pc = "collect"
  /\ i < N
  /\ results # <<>>
  /\ LET r == Head(results)
     IN /\ results' = Tail(results)
        /\ progress' = Append(progress,
               [completed |-> i + 1, total |-> N, name |-> r.name,
                summary |-> r.summary, newline |-> (r.err # Nil)])
        /\ failed' = IF r.err # Nil THEN Append(failed, r.name) ELSE failed
  /\ i' = i + 1
  /\ pc' = IF i + 1 = N THEN "sort" ELSE "collect"
  /\ UNCHANGED <<jobs, outdir, args, script, entries, dirCreated, throttle,
                 launched, upc, ret, logs, runs, summaryFile, status, diag>>

\* a report built without sorting the failures
SortSkipped ==
  /\ pc = "sort"
  /\ pc' = "write"
  /\ UNCHANGED <<jobs, outdir, args, script, entries, dirCreated, throttle,
                 results, launched, upc, ret, logs, runs, i, progress, failed,
                 summaryFile, status, diag>>

\* lines 142-145
Sort ==
  /\ pc = "sort"
  /\ failed' = SortStrings(failed)
  /\ pc' = "write"
  /\ UNCHANGED <<jobs, outdir, args, script, entries, dirCreated, throttle,
                 results, launched, upc, ret, logs, runs, i, progress,
                 summaryFile, status, diag>>

\* lines 146-151
WriteSummary ==
  /\ pc = "write"
  /\ \/ /\ Fatal("summary")
        /\ UNCHANGED summaryFile
     \/ /\ summaryFile' = failed
        /\ pc' = "print"
        /\ UNCHANGED <<status, diag>>
  /\ UNCHANGED <<jobs, outdir, args, script, entries, dirCreated, throttle,
                 results, launched, upc, ret, logs, runs, i, progress, failed>>

\* a run that reports failed tests through its exit status
FinishFailing ==
  /\ pc = "print"
  /\ pc' = "exit"
  /\ status' = IF failed = <<>> THEN 0 ELSE 1
  /\ UNCHANGED <<jobs, outdir, args, script, entries, dirCreated, throttle,
                 results, launched, upc, ret, logs, runs, i, progress, failed,
                 summaryFile, diag>>

\* lines 153-154: main returns, the process exits with status 0
Finish ==
  /\ pc = "print"
  /\ pc' = "exit"
  /\ status' = 0
  /\ UNCHANGED <<jobs, outdir, args, script, entries, dirCreated, throttle,
                 results, launched, upc, ret, logs, runs, i, progress, failed,
                 summaryFile, diag>>

\* ---- the goroutine of entry u (lines 125-130) ----
\* A goroutine only runs while the process is alive.

\* a send that still succeeds when the throttle channel holds as many values
\* as its capacity
AcquireOffByOne(u) ==
  /\ status = Running
  /\ upc[u] = "acquire"
  /\ throttle <= jobs
  /\ throttle' = throttle + 1
  /\ upc' = [upc EXCEPT ![u] = "run"]
  /\ UNCHANGED <<jobs, outdir, args, script, pc, entries, dirCreated,
                 results, launched, ret, logs, runs, i, progress, failed,
                 summaryFile, status, diag>>

\* a send that ignores the capacity of the throttle channel
AcquireUnbounded(u) ==
  /\ status = Running
  /\ upc[u] = "acquire"
  /\ throttle' = throttle + 1
  /\ upc' = [upc EXCEPT ![u] = "run"]
  /\ UNCHANGED <<jobs, outdir, args, script, pc, entries, dirCreated,
                 results, launched, ret, logs, runs, i, progress, failed,
                 summaryFile, status, diag>>

\* line 126: throttle <- 1
Acquire(u) ==
  /\ status = Running
  /\ upc[u] = "acquire"
  /\ throttle < jobs
  /\ throttle' = throttle + 1
  /\ upc' = [upc EXCEPT ![u] = "run"]
  /\ UNCHANGED <<jobs, outdir, args, script, pc, entries, dirCreated,
                 results, launched, ret, logs, runs, i, progress, failed,
                 summaryFile, status, diag>>

\* a goroutine that gives its slot back as soon as runTest returns, before
\* the result is sent
RunTestAndRelease(u) ==
  /\ status = Running
  /\ upc[u] = "run"
  /\ ret' = [ret EXCEPT ![u] = runTest(entries[u])]
  /\ logs' = IF script[entries[u]].create THEN logs \cup {entries[u]} ELSE logs
  /\ runs' = IF script[entries[u]].create
               THEN [runs EXCEPT ![entries[u]] = @ + 1]
               ELSE runs
  /\ throttle' = throttle - 1
  /\ upc' = [upc EXCEPT ![u] = "send"]
  /\ UNCHANGED <<jobs, outdir, args, script, pc, entries, dirCreated,
                 results, launched, i, progress, failed,
                 summaryFile, status, diag>>

\* a runTest that leaves a log file behind even when os.Create failed
RunTestLogsAlways(u) ==
  /\ status = Running
  /\ upc[u] = "run"
  /\ ret' = [ret EXCEPT ![u] = runTest(entries[u])]
  /\ logs' = logs \cup {entries[u]}
  /\ runs' = IF script[entries[u]].create
               THEN [runs EXCEPT ![entries[u]] = @ + 1]
               ELSE runs
  /\ upc' = [upc EXCEPT ![u] = "send"]
  /\ UNCHANGED <<jobs, outdir, args, script, pc, entries, dirCreated,
                 throttle, results, launched, i, progress, failed,
                 summaryFile, status, diag>>

\* a runTest that starts the process before it looks at the create error
RunTestSpawnsAnyway(u) ==
  /\ status = Running
  /\ upc[u] = "run"
  /\ ret' = [ret EXCEPT ![u] = runTest(entries[u])]
  /\ logs' = IF script[entries[u]].create THEN logs \cup {entries[u]} ELSE logs
  /\ runs' = [runs EXCEPT ![entries[u]] = @ + 1]
  /\ upc' = [upc EXCEPT ![u] = "send"]
  /\ UNCHANGED <<jobs, outdir, args, script, pc, entries, dirCreated,
                 throttle, results, launched, i, progress, failed,
                 summaryFile, status, diag>>

\* line 129, right-hand side: runTest(nm, *out)
RunTest(u) ==
  /\ status = Running
  /\ upc[u] = "run"
  /\ ret' = [ret EXCEPT ![u] = runTest(entries[u])]
  /\ logs' = IF script[entries[u]].create THEN logs \cup {entries[u]} ELSE logs
  /\ runs' = IF script[entries[u]].create
               THEN [runs EXCEPT ![entries[u]] = @ + 1]
               ELSE runs
  /\ upc' = [upc EXCEPT ![u] = "send"]
  /\ UNCHANGED <<jobs, outdir, args, script, pc, entries, dirCreated,
                 throttle, results, launched, i, progress, failed,
                 summaryFile, status, diag>>

\* a goroutine that delivers its result twice
SendTwice(u) ==
  /\ status = Running
  /\ upc[u] = "send"
  /\ Len(results) < ResultsCap
  /\ results' = Append(Append(results, ret[u]), ret[u])
  /\ upc' = [upc EXCEPT ![u] = "release"]
  /\ UNCHANGED <<jobs, outdir, args, script, pc, entries, dirCreated,
                 throttle, launched, ret, logs, runs, i, progress, failed,
                 summaryFile, status, diag>>

\* line 129: results <- ...
Send(u) ==
  /\ status = Running
  /\ upc[u] = "send"
  /\ Len(results) < ResultsCap
  /\ results' = Append(results, ret[u])
  /\ upc' = [upc EXCEPT ![u] = "release"]
  /\ UNCHANGED <<jobs, outdir, args, script, pc, entries, dirCreated,
                 throttle, launched, ret, logs, runs, i, progress, failed,
                 summaryFile, status, diag>>

\* a goroutine that goes back to wait for a slot and runs its test a second
\* time when the first attempt failed
ReleaseRetryFailed(u) ==
  /\ status = Running
  /\ upc[u] = "release"
  /\ throttle > 0
  /\ throttle' = throttle - 1
  /\ upc' = [upc EXCEPT ![u] = IF ret[u].err = ErrExit /\ runs[entries[u]] < 2
                                 THEN "acquire" ELSE "done"]
  /\ UNCHANGED <<jobs, outdir, args, script, pc, entries, dirCreated,
                 results, launched, ret, logs, runs, i, progress, failed,
                 summaryFile, status, diag>>

\* a goroutine that gives its slot back only after a test that was started
ReleaseUnlessCreateError(u) ==
  /\ status = Running
  /\ upc[u] = "release"
  /\ throttle > 0
  /\ throttle' = IF ret[u].err = ErrCreate THEN throttle ELSE throttle - 1
  /\ upc' = [upc EXCEPT ![u] = "done"]
  /\ UNCHANGED <<jobs, outdir, args, script, pc, entries, dirCreated,
                 results, launched, ret, logs, runs, i, progress, failed,
                 summaryFile, status, diag>>

\* line 127: the deferred <-throttle
Release(u) ==
  /\ status = Running
  /\ upc[u] = "release"
  /\ throttle > 0
  /\ throttle' = throttle - 1
  /\ upc' = [upc EXCEPT ![u] = "done"]
  /\ UNCHANGED <<jobs, outdir, args, script, pc, entries, dirCreated,
                 results, launched, ret, logs, runs, i, progress, failed,
                 summaryFile, status, diag>>

Unit(u) == Acquire(u) \/ RunTest(u) \/ Send(u) \/ Release(u)

Main == CheckFlags \/ Glob \/ MkdirAll \/ MakeChans \/ Launch \/ Collect
          \/ Sort \/ WriteSummary \/ Finish

Next == Main \/ \E u \in DOMAIN upc : Unit(u)

Spec == Init /\ [][Next]_vars

\* Whether a run makes progress does not depend on the names of the scripts,
\* only on how the script at each position of the list behaves.  Every
\* sequence of behaviours that lists over two names can show is shown with
\* one of these three assignments (a list of one repeated name gives the
\* sequences of a single behaviour).
FairScripts ==
  { sc \in [Names -> Behaviours] :
      /\ sc["t1"] # sc["t2"]
      /\ sc["t1"].create
      /\ sc["t1"].exit = Nil \/ ~sc["t2"].create }

FairInit == Init /\ script \in FairScripts

\* The Go scheduler runs some runnable goroutine.
FairSpec == FairInit /\ [][Next]_vars /\ WF_vars(Next)

\* ---- runTest on arbitrary captured output ----
\* The bytes a script can print, the texts of at most n bytes, and the
\* output "a\nb\nc\n".
Bytes == {"a", "b", LF}
Texts(n) == UNION { [1..k -> Bytes] : k \in 0..n }
OutABC == <<"a", LF, "b", LF, "c", LF>>
Outputs == Texts(MaxOut) \cup {OutABC}

\* One pattern, one job; both scripts print the same output, t1 exits
\* cleanly and t2 fails.
SummaryInit ==
  /\ jobs = 1
  /\ outdir = TRUE
  /\ args = 1
  /\ \E o \in Outputs :
        script = [n \in Names |->
                    [create |-> TRUE,
                     exit |-> IF n = "t1" THEN Nil ELSE ErrExit,
                     out |-> o]]
  /\ Fresh

SummarySpec == SummaryInit /\ [][Next]_vars

\* ---- properties ----

\* goroutines that hold a slot of the throttle channel
Holding == {u \in DOMAIN upc : upc[u] \in {"run", "send", "release"}}
\* goroutines inside runTest
Executing == {u \in DOMAIN upc : upc[u] = "run"}
\* goroutines that have placed their result on the results channel
Delivered == {u \in DOMAIN upc : upc[u] \in {"release", "done"}}
\* what a progress line shows of a result
Shown(r) == [name |-> r.name, summary |-> r.summary, newline |-> (r.err # Nil)]
Line(l) == [name |-> l.name, summary |-> l.summary, newline |-> l.newline]
\* how many results showing x are in the channel or already consumed
Arrived(x) ==
  Cardinality({k \in 1..Len(results) : Shown(results[k]) = x})
    + Cardinality({k \in 1..Len(progress) : Line(progress[k]) = x})
\* how many goroutines have delivered a result showing x
Sent(x) == Cardinality({u \in Delivered : Shown(runTest(entries[u])) = x})
\* everything a result of this run can show
Showable == {Shown(runTest(n)) : n \in Names}
\* goroutine u is at position p
At(u, p) == IF u \in DOMAIN upc THEN upc[u] = p ELSE FALSE
\* the main goroutine is past the collector loop
Collected == pc \in {"sort", "write", "print"}
               \/ (pc = "exit" /\ diag \in {"none", "summary"})

\* C1: with jobs >= 1, the goroutines that have acquired a throttle slot and
\* not released it, and so the tests executing, never number more than jobs.
C1_ThrottleBound ==
  jobs >= 1 =>
    /\ Cardinality(Holding) <= jobs
    /\ Cardinality(Executing) <= jobs
    /\ throttle = Cardinality(Holding)

\* C1 witness: the budget is full and another goroutine waits for a slot.
C1_Witness ==
  /\ jobs >= 1
  /\ Cardinality(Holding) = jobs
  /\ Cardinality(Executing) = jobs
  /\ \E u \in DOMAIN upc : upc[u] = "acquire"

\* C2: every goroutine places exactly one result on the results channel,
\* only the collector takes results out of it, and the collector has taken
\* exactly N results, one per entry, when it finishes.
C2_StateInv ==
  /\ Len(results) + Len(progress) = Cardinality(Delivered)
  /\ \A x \in Showable : Arrived(x) = Sent(x)
  /\ \A k \in 1..Len(results) : Shown(results[k]) \in Showable
  /\ \A k \in 1..Len(progress) : Line(progress[k]) \in Showable
  /\ Len(progress) = i
  /\ i <= N
  /\ Collected /\ jobs >= 1 =>
       /\ i = N
       /\ results = <<>>
       /\ Delivered = Units

C2_OnlyCollectorReceives ==
  Len(results') < Len(results) =>
    /\ pc = "collect"
    /\ i' = i + 1
    /\ upc' = upc
    /\ Len(results') = Len(results) - 1

C2_OneResultPerEntry == [](C2_StateInv) /\ [][C2_OnlyCollectorReceives]_vars

\* C2 witness: a run over three entries, one of them repeated, has ended
\* after the collector took three results.
C2_Witness ==
  /\ status = 0
  /\ N = 3
  /\ i = 3
  /\ \E a, b \in Units : a # b /\ entries[a] = entries[b]

\* C3: with jobs >= 1 and a fair scheduler every launched goroutine gets a
\* slot and runs its test, the collector receives all N results and the run
\* reaches its report, whatever the tests do.
C3_Liveness ==
  (jobs >= 1 /\ pc \in {"launch", "collect"})
    ~> (pc = "write" /\ i = N /\ Delivered = Units /\ Len(progress) = N)

\* C3 witness: a goroutine waits for a slot while the budget is full and
\* tests of both outcomes are in the list.
C3_Witness ==
  /\ jobs >= 1
  /\ throttle = jobs
  /\ \E u \in DOMAIN upc : upc[u] = "acquire"
  /\ \E a, b \in Units : script[entries[a]].exit = Nil /\ script[entries[a]].create
                          /\ script[entries[b]].exit # Nil

\* C4: the results channel never holds more than N results, and a goroutine
\* that has its result in hand always finds room in the channel.
C4_SendNeverBlocks ==
  /\ Len(results) <= N
  /\ \A u \in DOMAIN upc : upc[u] = "send" => Len(results) < ResultsCap

\* C4 witness: the collector has consumed nothing, N - 1 results sit in the
\* channel and the last goroutine is about to send.
C4_Witness ==
  /\ N >= 2
  /\ i = 0
  /\ Len(results) = N - 1
  /\ \E u \in DOMAIN upc : upc[u] = "send"

\* the result runTest gives to the goroutine of entry u
ResultOf(u) == runTest(entries[u])
\* goroutine u holds a slot with a create-error result in hand
CreateErrorHolds(u) ==
  IF u \in DOMAIN upc THEN upc[u] = "send" /\ ret[u].err = ErrCreate ELSE FALSE
\* the failures have been sorted: the report is built
ReportBuilt == pc \in {"write", "print"}
                 \/ (pc = "exit" /\ diag \in {"none", "summary"})
IsSorted(s) == \A k \in 1..(Len(s) - 1) : ~StrLess(s[k+1], s[k])

\* C5: a goroutine whose log file could not be created still gives its slot
\* back: the goroutines waiting behind it are admitted and the run reaches
\* its report, also with jobs = 1.
C5_ReleaseStep ==
  \A u \in DOMAIN upc :
    (upc[u] = "release" /\ ret[u].err = ErrCreate /\ upc'[u] = "done")
      => throttle' = throttle - 1

C5_CreateErrorReleasesSlot ==
  /\ [][C5_ReleaseStep]_vars
  /\ (jobs >= 1 /\ \E u \in 1..MaxEntries : CreateErrorHolds(u))
       ~> (pc = "write" /\ i = N /\ \A w \in 1..MaxEntries : ~At(w, "acquire"))

\* C5 witness: with jobs = 1 a goroutine has finished after a create error,
\* a goroutine that waited behind it is running its test and another waits.
C5_Witness ==
  /\ jobs = 1
  /\ \E u, w, x \in DOMAIN upc :
       /\ upc[u] = "done" /\ ret[u].err = ErrCreate
       /\ upc[w] = "run"
       /\ upc[x] = "acquire"

\* the names of the failing results, in the order of the entries
RECURSIVE FailedNamesUpTo(_)
FailedNamesUpTo(k) ==
  IF k = 0 THEN <<>>
  ELSE IF ResultOf(k).err # Nil
         THEN Append(FailedNamesUpTo(k - 1), ResultOf(k).name)
         ELSE FailedNamesUpTo(k - 1)

\* C6: for fixed entries with fixed outcomes the failures list of the report
\* is one sorted sequence, whatever the order in which the results arrived
\* and whatever jobs is.
C6_FailuresDeterministic ==
  /\ ReportBuilt =>
       /\ failed = SortStrings(FailedNamesUpTo(N))
       /\ IsSorted(failed)
  /\ summaryFile # NoFile => summaryFile = SortStrings(FailedNamesUpTo(N))

\* C6 witness: the summary is written after two failures arrived in
\* descending order of their names.
C6_Witness ==
  /\ summaryFile # NoFile
  /\ \E k \in 1..(Len(progress) - 1) :
       /\ progress[k].newline /\ progress[k+1].newline
       /\ StrLess(progress[k+1].name, progress[k].name)

\* the identifiers of the failed entries, in the order of the entries
RECURSIVE FailedEntriesUpTo(_)
FailedEntriesUpTo(k) ==
  IF k = 0 THEN <<>>
  ELSE IF ResultOf(k).err # Nil
         THEN Append(FailedEntriesUpTo(k - 1), entries[k])
         ELSE FailedEntriesUpTo(k - 1)

\* C7: every failed result, whatever its cause, adds the identifier of its
\* test to the failures list: the list of the report holds exactly the
\* identifiers of the failed tests.
C7_FailuresAreFailedIdentifiers ==
  ReportBuilt => failed = SortStrings(FailedEntriesUpTo(N))

\* C8: the directory is created before any goroutine takes a slot or runs a
\* test, all N results are consumed before the failures are sorted, the
\* report is built before summary.txt is written, and summary.txt is never
\* written with fewer than N results consumed.
C8_StateOrder ==
  /\ (Holding # {} \/ Delivered # {} \/ logs # {}) => dirCreated
  /\ (pc = "sort" \/ ReportBuilt) => (i = N /\ Len(progress) = N)
  /\ summaryFile # NoFile =>
       /\ ReportBuilt /\ pc # "write"
       /\ i = N
       /\ IsSorted(summaryFile)

C8_StepOrder ==
  /\ dirCreated' # dirCreated => (pc = "mkdir" /\ launched = 0 /\ throttle = 0)
  /\ throttle' > throttle => dirCreated
  /\ (pc' = "write" /\ pc # "write") => (pc = "sort" /\ i = N)
  /\ summaryFile' # summaryFile => (pc = "write" /\ i = N /\ IsSorted(failed))

C8_TotalOrder == [](C8_StateOrder) /\ [][C8_StepOrder]_vars

\* C8 witness: summary.txt is written at the end of a run over three entries.
C8_Witness ==
  /\ summaryFile # NoFile
  /\ dirCreated
  /\ N = 3
  /\ Delivered = Units

\* the diagnostics of the fatal errors: the configuration errors (a negative
\* --jobs among them) and the summary-write error
ConfigErrors == {"outdir", "usage", "glob", "mkdir", "makechan"}
FatalErrors == ConfigErrors \cup {"summary"}

\* C9: failed tests are never fatal: whichever entries fail, a run that
\* meets no fatal error consumes all N results, writes the summary and exits
\* with status 0; a non-zero status only comes from a configuration error or
\* a summary-write error.
C9_TestFailuresNotFatal ==
  /\ (pc = "exit" /\ diag = "none") =>
       /\ status = 0
       /\ i = N
       /\ summaryFile = failed
  /\ (status # Running /\ status # 0) => diag \in FatalErrors
  /\ (status = Running) = (pc # "exit")
  /\ (diag \in ConfigErrors) => (i = 0 /\ summaryFile = NoFile)
  /\ (diag = "summary") => (i = N /\ summaryFile = NoFile)

\* C9 witness: a run in which all three entries failed has exited with
\* status 0 and a written summary.
C9_Witness ==
  /\ status = 0
  /\ N = 3
  /\ Len(failed) = 3
  /\ summaryFile # NoFile

\* the patterns have been expanded
GlobDone == pc \in {"mkdir", "make", "launch", "collect", "sort", "write", "print"}
              \/ (pc = "exit" /\ diag \in {"none", "mkdir", "makechan", "summary"})

\* C10 as stated: patterns that match no script are a configuration error;
\* the process aborts with a non-zero status before scheduling, launches no
\* goroutine and writes no summary.
C10_EmptyMatchIsFatal ==
  (GlobDone /\ entries = <<>>) =>
    /\ status # 0
    /\ summaryFile = NoFile

\* C10 amended: a command line without patterns is a configuration error
\* (exit status 1 before the patterns are expanded, no goroutine, no
\* summary); patterns that match no script are not an error: the run goes on
\* with N = 0, launches no goroutine, and unless a fatal error of another
\* kind stops it, writes a summary with an empty failures list and exits 0.
C10_EmptyMatchRuns ==
  /\ (outdir /\ args = 0 /\ pc # "flags") =>
       /\ pc = "exit" /\ status = 1 /\ diag = "usage"
       /\ entries = <<>> /\ launched = 0 /\ upc = <<>>
       /\ summaryFile = NoFile
  /\ (GlobDone /\ entries = <<>>) =>
       /\ args >= 1
       /\ launched = 0 /\ Holding = {} /\ logs = {}
       /\ diag # "usage" /\ diag # "glob"
       /\ summaryFile \in {NoFile, <<>>}
       /\ pc = "print" => summaryFile = <<>>
       /\ pc = "exit" =>
            \/ status = 0 /\ summaryFile = <<>>
            \/ status # 0 /\ diag \in {"mkdir", "makechan", "summary"}

\* C10 witness: patterns were given, none matched, and the run has exited
\* with status 0 after writing an empty summary.
C10_Witness ==
  /\ args >= 1
  /\ GlobDone /\ entries = <<>>
  /\ status = 0
  /\ summaryFile = <<>>

\* the number of processes started so far
RECURSIVE SumRuns(_)
SumRuns(ns) ==
  IF ns = {} THEN 0
  ELSE LET n == CHOOSE n \in ns : TRUE IN runs[n] + SumRuns(ns \ {n})

\* C11: when the output directory cannot be created the process aborts with
\* a non-zero status before any goroutine is started: no slot is taken, no
\* test is run, no log file is created and no summary is written.
C11_MkdirFailureAborts ==
  /\ diag = "mkdir" =>
       /\ pc = "exit" /\ status = 1
       /\ ~dirCreated
  /\ ~dirCreated =>
       /\ launched = 0 /\ upc = <<>>
       /\ throttle = 0 /\ results = <<>>
       /\ SumRuns(Names) = 0
       /\ logs = {}
       /\ i = 0 /\ progress = <<>>
       /\ summaryFile = NoFile

\* C11 witness: the patterns matched three scripts, the directory could not
\* be created and the process has exited.
C11_Witness ==
  /\ diag = "mkdir"
  /\ N = 3
  /\ jobs >= 1
  /\ pc = "exit"

\* goroutine u has the result of runTest in hand or has delivered it
Returned(u) == upc[u] \in {"send", "release", "done"}

\* C12 as stated: a test that prints "a\nb\nc\n" gets the summary "ok: a"
\* when it exits cleanly and "error: a" when it fails.
C12_SummaryIsFirstLine ==
  \A u \in DOMAIN upc :
    (Returned(u) /\ script[entries[u]].create /\ script[entries[u]].out = OutABC)
      => ret[u].summary = IF script[entries[u]].exit = Nil
                            THEN OkPrefix \o <<"a">>
                            ELSE ErrorPrefix \o <<"a">>

\* C12 amended: a test that prints "a\nb\nc\n" gets the summary "ok: b"
\* when it exits cleanly and "error: b" when it fails: the output splits
\* into the four pieces a, b, c and the empty piece after the last line
\* feed, and the body is the third piece from the end.
C12_SummaryIsSecondLine ==
  /\ \A u \in DOMAIN upc :
       (Returned(u) /\ script[entries[u]].create
          /\ script[entries[u]].out = OutABC)
         => /\ ret[u].summary = IF script[entries[u]].exit = Nil
                                  THEN OkPrefix \o <<"b">>
                                  ELSE ErrorPrefix \o <<"b">>
            /\ ret[u].name = entries[u]
  /\ \A k \in 1..Len(progress) :
       (progress[k].name \in Names /\ script[progress[k].name].out = OutABC)
         => progress[k].summary = IF progress[k].newline
                                    THEN ErrorPrefix \o <<"b">>
                                    ELSE OkPrefix \o <<"b">>

\* C12 witness: both scripts printed "a\nb\nc\n", one exited cleanly and
\* one failed, and both results have been reported.
C12_Witness ==
  /\ Len(progress) = 2
  /\ \A n \in Names : script[n].out = OutABC
  /\ \E k, l \in 1..Len(progress) : progress[k].newline /\ ~progress[l].newline

\* The pieces of a text, counted from its line feeds: a text with c line
\* feeds has c + 1 pieces; piece j (from 0) lies between the j-th and the
\* (j+1)-th line feed.
PieceCount(t) == Cardinality({k \in 1..Len(t) : t[k] = LF}) + 1
Cut(t, j) ==
  IF j = 0 THEN 0
  ELSE IF j = PieceCount(t) THEN Len(t) + 1
  ELSE CHOOSE k \in 1..Len(t) :
         t[k] = LF /\ Cardinality({m \in 1..k : t[m] = LF}) = j
Piece(t, j) == SubSeq(t, Cut(t, j) + 1, Cut(t, j + 1) - 1)
Body(t) == IF PieceCount(t) >= 3 THEN Piece(t, PieceCount(t) - 3) ELSE <<>>

\* C14: runTest splits the captured output at its line feeds into count
\* pieces, a final line feed giving a last empty piece; the body of the
\* summary is the piece at index count - 3 (from 0) when count >= 3 and
\* empty otherwise; the summary is "ok: " + body after a clean exit and
\* "error: " + body otherwise.
C14_SummaryRule ==
  \A u \in DOMAIN upc :
    (Returned(u) /\ script[entries[u]].create) =>
      LET b == script[entries[u]]
      IN /\ Len(Split(b.out)) = PieceCount(b.out)
         /\ \A j \in 0..(PieceCount(b.out) - 1) :
              Split(b.out)[j + 1] = Piece(b.out, j)
         /\ ret[u].summary = IF b.exit = Nil THEN OkPrefix \o Body(b.out)
                                             ELSE ErrorPrefix \o Body(b.out)
         /\ ret[u].err = b.exit
         /\ ret[u].name = entries[u]

\* C14 witness: a test whose output has at least three pieces, ends with a
\* line feed and has a non-empty body has returned from runTest.
C14_Witness ==
  \E u \in DOMAIN upc :
    /\ Returned(u)
    /\ LET o == script[entries[u]].out
       IN /\ PieceCount(o) >= 4
          /\ o[Len(o)] = LF
          /\ Body(o) # <<>>
          /\ Body(o) # Piece(o, 0)

\* C13 as stated: after a run over N entries exactly N log files exist, one
\* per entry, also when an entry is repeated and when creating a log file
\* fails.
C13_OneLogPerEntry ==
  Collected => Cardinality(logs) = N

\* C13 amended: the log files of a run are <identifier>.log for every
\* distinct identifier whose log file could be created.  There are N of
\* them when the N entries are pairwise distinct and no creation fails;
\* a repeated entry writes the same file twice and a failed creation
\* leaves no file, so there are fewer than N otherwise.
C13_LogsOfDistinctCreated ==
  /\ logs = {entries[u] : u \in {v \in DOMAIN upc : Returned(v)
                                     /\ script[entries[v]].create}}
  /\ Cardinality(logs) <= N
  /\ Collected =>
       /\ logs = {entries[u] : u \in {v \in Units : script[entries[v]].create}}
       /\ (Cardinality(logs) = N) =
            /\ \A a, b \in Units : a # b => entries[a] # entries[b]
            /\ \A a \in Units : script[entries[a]].create

\* C13 witness: a run over three entries has ended with a single log file:
\* one script ran twice and the log file of the other could not be created.
C13_Witness ==
  /\ status = 0
  /\ N = 3
  /\ Cardinality(logs) = 1
  /\ \E a, b, c \in Units :
       /\ a # b /\ entries[a] = entries[b] /\ script[entries[a]].create
       /\ ~script[entries[c]].create

\* the entries whose log file cannot be created
CreateFails == {u \in Units : ~script[entries[u]].create}

\* C15: when the log file of an entry cannot be created, runTest returns a
\* failed result with the summary "create error" and starts no process for
\* the entry; the result is still one of the N the collector consumes.
C15_CreateErrorResult ==
  /\ \A u \in DOMAIN upc :
       (Returned(u) /\ ~script[entries[u]].create) =>
         /\ ret[u].summary = CreateError
         /\ ret[u].err # Nil
         /\ runs[entries[u]] = 0
         /\ entries[u] \notin logs
  /\ \A n \in Names :
       runs[n] = Cardinality({u \in DOMAIN upc :
                    Returned(u) /\ entries[u] = n /\ script[n].create})
  /\ Collected =>
       /\ i = N
       /\ Cardinality({k \in 1..Len(progress) :
             progress[k].summary = CreateError /\ progress[k].newline})
            = Cardinality(CreateFails)

\* C15 witness: a run over three entries has consumed all results, two of
\* them create errors.
C15_Witness ==
  /\ N = 3
  /\ Collected
  /\ Cardinality(CreateFails) = 2
  /\ SumRuns(Names) = 1

\* C16: the k-th result the collector consumes is printed with completed = k
\* and total = N and with its own name and summary; the counter grows by
\* one per result and ends at N; a line break follows the line exactly when
\* the result is a failure.
C16_Numbered ==
  /\ \A k \in 1..Len(progress) :
       progress[k].completed = k /\ progress[k].total = N
  /\ Len(progress) = i
  /\ Collected => Len(progress) = N

C16_PrintStep ==
  progress' # progress =>
    /\ results # <<>>
    /\ LET r == Head(results)
       IN progress' = Append(progress,
            [completed |-> Len(progress) + 1, total |-> N, name |-> r.name,
             summary |-> r.summary, newline |-> (r.err # Nil)])
    /\ i' = i + 1
    /\ results' = Tail(results)

C16_ProgressNumbering == [](C16_Numbered) /\ [][C16_PrintStep]_vars

\* C16 witness: three results have been consumed, the first of them from an
\* entry other than the first, some with a line break and some without.
C16_Witness ==
  /\ N = 3
  /\ Len(progress) = 3
  /\ progress[3].completed = 3
  /\ progress[1].name \in Names /\ progress[1].name # entries[1]
  /\ \E k, l \in 1..3 : progress[k].newline /\ ~progress[l].newline

\* what one entry's own log creation and own process give: a failure flag and
\* a summary
Own(b) ==
  IF ~b.create THEN [failed |-> TRUE, summary |-> CreateError]
  ELSE [failed |-> (b.exit # Nil),
        summary |-> (IF b.exit = Nil THEN OkPrefix ELSE ErrorPrefix) \o Body(b.out)]
\* the failure flag and the summary of a result
Outcome(r) == [failed |-> (r.err # Nil), summary |-> r.summary]
\* the failure flag and the summary of a progress line
LineOutcome(l) == [failed |-> l.newline, summary |-> l.summary]

\* C17: the outcome and the summary recorded for an entry are a function of
\* that entry's own log creation and own process only, whatever the other
\* entries do; a goroutine that is through holds no slot whether its test
\* failed or not, and once the collector is through every entry has been
\* admitted, has returned and has its own outcome among the progress lines.
C17_ErrorsContained ==
  /\ \A u \in DOMAIN upc :
       Returned(u) => Outcome(ret[u]) = Own(script[entries[u]])
  /\ \A k \in 1..Len(results) :
       \E u \in Delivered : Outcome(results[k]) = Own(script[entries[u]])
  /\ throttle = Cardinality(Holding)
  /\ Collected =>
       /\ DOMAIN upc = Units
       /\ \A u \in Units :
            /\ u \in Delivered
            /\ \E k \in 1..Len(progress) :
                 LineOutcome(progress[k]) = Own(script[entries[u]])

\* C17 witness: a passing test and an entry whose log file could not be
\* created have returned side by side, the passing one with a clean result,
\* while a third entry is still waiting for a slot.
C17_Witness ==
  /\ N = 3
  /\ \E u, v, w \in DOMAIN upc :
       /\ upc[u] = "send" /\ upc[v] = "send" /\ upc[w] = "acquire"
       /\ script[entries[u]].create /\ script[entries[u]].exit = Nil
       /\ ret[u].err = Nil
       /\ ~script[entries[v]].create
       /\ ret[v].err = ErrCreate

\* the state of an entry: Pending until its goroutine holds a slot, Running
\* inside runTest, Completed once runTest has returned its result
Phase(p) ==
  IF p \in {"idle", "acquire"} THEN "Pending"
  ELSE IF p = "run" THEN "Running" ELSE "Completed"
PhaseRank(ph) == IF ph = "Pending" THEN 0 ELSE IF ph = "Running" THEN 1 ELSE 2
\* goroutines whose runTest has returned
Completed == {u \in DOMAIN upc : Phase(upc[u]) = "Completed"}

\* C18: an entry moves only forward through Pending, Running, Completed: it
\* becomes Running only from Pending and only by taking a free throttle
\* slot, becomes Completed only from Running, and never leaves Completed.
\* Every entry is executed at most once, and the process never ends with an
\* entry it has started still Pending or Running.
C18_Forward ==
  \A u \in DOMAIN upc \cap DOMAIN upc' :
    LET p == Phase(upc[u])
        q == Phase(upc'[u])
    IN /\ PhaseRank(q) >= PhaseRank(p)
       /\ PhaseRank(q) <= PhaseRank(p) + 1
       /\ (p = "Pending" /\ q = "Running") =>
            throttle < jobs /\ throttle' = throttle + 1
       /\ (p = "Running" /\ q = "Completed") =>
            /\ ret'[u] # NoResult
            /\ SumRuns(Names)' =
                 SumRuns(Names) + (IF script[entries[u]].create THEN 1 ELSE 0)
       /\ q = p => (ret'[u] = ret[u])

C18_Once ==
  /\ SumRuns(Names) =
       Cardinality({u \in Completed : script[entries[u]].create})
  /\ \A u \in DOMAIN upc : Phase(upc[u]) # "Completed" => ret[u] = NoResult
  /\ (pc = "exit" /\ launched > 0) => Completed = Units

C18_ForwardOnly == [](C18_Once) /\ [][C18_Forward]_vars

\* C18 witness: a run of three entries in which a test failed has ended with
\* every entry Completed and each started script run once.
C18_Witness ==
  /\ N = 3 /\ jobs = 1
  /\ pc = "exit" /\ status = 0
  /\ \A u \in Units : upc[u] = "done"
  /\ \E u \in Units : ret[u].err = ErrExit
  /\ \E u \in Units : ret[u].err = Nil
  /\ SumRuns(Names) = 3

\* goroutines that have taken a slot at some point
Admitted == {u \in DOMAIN upc : upc[u] \notin {"idle", "acquire"}}
\* slots given back so far: those taken less those still held
ReleasedCount == Cardinality(Admitted) - throttle
\* results placed on the results channel so far: those still in it and
\* those the collector has taken out
DeliveredCount == Len(results) + i

\* C19: a goroutine gives its slot back only after its result is on the
\* results channel: the slots given back so far never number more than the
\* results delivered so far, a goroutine that is inside runTest or has a
\* result in hand still holds its slot, and a step that frees a slot is the
\* step of a goroutine whose result was delivered before.
C19_ReleasedAtMostDelivered ==
  /\ ReleasedCount <= DeliveredCount
  /\ ReleasedCount >= 0
  /\ Cardinality({u \in DOMAIN upc : upc[u] \in {"run", "send"}}) <= throttle

C19_ReleaseAfterSend ==
  throttle' < throttle =>
    /\ throttle' = throttle - 1
    /\ results' = results /\ i' = i
    /\ ReleasedCount < DeliveredCount

C19_SlotHeldUntilDelivered ==
  [](C19_ReleasedAtMostDelivered) /\ [][C19_ReleaseAfterSend]_vars

\* C19 witness: the collector has consumed all N results and the failures
\* are sorted for the report, while the goroutine that delivered the last
\* result consumed still holds its slot.
C19_Witness ==
  /\ N = 3 /\ jobs = 1
  /\ pc = "write" /\ i = N
  /\ throttle = 1
  /\ \E u \in Units :
       /\ upc[u] = "release"
       /\ Line(progress[N]) = Shown(ret[u])
       /\ \A v \in Units \ {u} : upc[v] = "done"
  /\ ReleasedCount = N - 1 /\ DeliveredCount = N

\* C20: with jobs = 0 and at least one entry no goroutine ever takes a slot,
\* no test is run, no log file is created, no result is delivered and the
\* collector receives nothing: the run never reaches the report and never
\* writes summary.txt.  Once every goroutine is started and the collector
\* waits for its first result, no step of the program is possible any more.
C20_ZeroJobsBlocks ==
  (jobs = 0 /\ N >= 1) =>
    /\ throttle = 0
    /\ Admitted = {}
    /\ SumRuns(Names) = 0 /\ logs = {}
    /\ results = <<>> /\ DeliveredCount = 0
    /\ i = 0 /\ progress = <<>> /\ failed = <<>>
    /\ ~Collected
    /\ summaryFile = NoFile
    /\ status # 0
    /\ pc = "collect" =>
         /\ \A u \in Units : upc[u] = "acquire"
         /\ ~ENABLED Next

\* C20 witness: with jobs = 0 three goroutines wait for a slot and the
\* collector waits for its first result.
C20_Witness ==
  /\ jobs = 0 /\ N = 3
  /\ pc = "collect" /\ i = 0
  /\ status = Running
  /\ \A u \in Units : upc[u] = "acquire"

====
